---------------------------- MODULE Spec2Model ----------------------------
(***************************************************************************)
(* A model of phosphor-panel's PanelLayout (src/src/layout.ts).            *)
(*                                                                         *)
(* One layout, one container widget (the widget the layout may be          *)
(* installed on) and NumWidgets child widgets.  A widget's DOM node is     *)
(* identified with the widget, so the container's rendering surface        *)
(* (parent.node's child list) is a sequence of widgets.  A second          *)
(* PanelLayout with a container of its own (other) stands beside the       *)
(* first; it is left alone in Spec and takes part in TwoSpec.              *)
(*                                                                         *)
(* Every public operation is one action that runs the whole call,          *)
(* including the hooks it invokes and the messages it sends.  dispose()    *)
(* is a loop that calls out to the children, which may call back into the  *)
(* layout, so it is modelled one iteration at a time.                      *)
(*                                                                         *)
(* A call that raises (insertBefore with a reference node that is not a    *)
(* child of the container's node, a property read on a null parent)        *)
(* aborts the operation at that point:                                     *)
(* the assignments made before it stay, threw becomes TRUE and the run     *)
(* ends there.                                                             *)
(***************************************************************************)
EXTENDS Integers, Sequences, FiniteSets, TLC

\* Number of child widgets that exist.
NumWidgets == 3

\* Largest in-range index handed to insertChild is NumWidgets + IndexSlack.
IndexSlack == 1

Widgets == 1..NumWidgets

\* The value of an out-of-range array read (childAt) and of `ref && ref.node`.
Undefined == 0

\* Widget.parent of a child: null, the container widget, or the container of
\* the other layout.
Null == "null"
Container == "container"
Other == "other"

MsgAfterAttach == "after-attach"
MsgBeforeDetach == "before-detach"

-----------------------------------------------------------------------------
(* Numbers.  An index is an integer hi * 2^16 + lo, written <<hi, lo>> with *)
(* 0 <= lo < 2^16, so that values beyond 32 bits can be handed to the code. *)

TwoTo16 == 65536
TwoTo15 == 32768

Min(a, b) == IF a < b THEN a ELSE b
Max(a, b) == IF a > b THEN a ELSE b

Small(k) == IF k >= 0 THEN <<0, k>> ELSE <<-1, TwoTo16 + k>>

\* 2^31 and -(2^31) - 1: the nearest integers outside the signed 32-bit range.
BigIndices == { <<TwoTo15, 0>>, <<-TwoTo15 - 1, TwoTo16 - 1>> }

Indices == { Small(k) : k \in -1..(NumWidgets + IndexSlack) } \cup BigIndices

\* `index | 0`: ToInt32 of an integer, i.e. reduction modulo 2^32 into
\* [-2^31, 2^31).
ToInt32(index) ==
  LET hi == ((index[1] + TwoTo15) % TwoTo16) - TwoTo15
  IN  hi * TwoTo16 + index[2]

\* max(0, min(index, n)) over the integers, for 0 <= n < 2^16.
MathClamp(index, n) ==
  IF index[1] < 0 THEN 0
  ELSE IF index[1] > 0 THEN n
  ELSE Min(index[2], n)

-----------------------------------------------------------------------------
(* Arrays (zero-based, as in the source).                                  *)

Range(s) == { s[k] : k \in 1..Len(s) }

\* Array.prototype.indexOf: first position of value, or -1.
IndexOf(array, value) ==
  IF value \in Range(array)
    THEN (CHOOSE k \in 1..Len(array) :
            array[k] = value /\ \A m \in 1..(k - 1) : array[m] # value) - 1
    ELSE -1

\* array[index]: undefined outside 0..length-1.
ElemAt(array, index) ==
  IF 0 <= index /\ index < Len(array) THEN array[index + 1] ELSE Undefined

\* array[index] that clamps the index into the array.
ElemAtClamped(array, index) ==
  ElemAt(array, Max(0, Min(ToInt32(index), Len(array) - 1)))

\* array[index] for any integer index <<hi, lo>>: the property named by the
\* number, which only the positions 0..length-1 have.
ElemAtInteger(array, index) ==
  IF index[1] = 0 THEN ElemAt(array, index[2]) ELSE Undefined

RemoveAt(array, i) ==
  [k \in 1..(Len(array) - 1) |-> IF k <= i THEN array[k] ELSE array[k + 1]]

\* arrays.insert(array, j, value), 0 <= j <= length.
ArrInsert(array, j, value) ==
  [k \in 1..(Len(array) + 1) |->
     IF k <= j THEN array[k] ELSE IF k = j + 1 THEN value ELSE array[k - 1]]

\* arrays.move(array, i, j): the element at i ends at j, the elements between
\* shift by one towards i.  Out-of-range positions leave the array alone.
ArrMove(array, i, j) ==
  IF i < 0 \/ i >= Len(array) \/ j < 0 \/ j >= Len(array) THEN array
  ELSE ArrInsert(RemoveAt(array, i), j, array[i + 1])

\* arrays.remove(array, value): removes the first occurrence and returns its
\* index, or -1.
ArrRemove(array, value) ==
  LET i == IndexOf(array, value)
  IN  [index |-> i, array |-> IF i = -1 THEN array ELSE RemoveAt(array, i)]

-----------------------------------------------------------------------------
(* The DOM calls made on parent.node.                                      *)

\* Node.insertBefore(node, ref).  ref = Undefined/null appends.  A ref that
\* is not a child of this node raises NotFoundError (ok = FALSE).  A node
\* that is already a child is first taken out of the child list.
InsertBefore(nodes, node, ref) ==
  IF ref # Undefined /\ ref \notin Range(nodes) THEN [ok |-> FALSE, nodes |-> nodes]
  ELSE IF ref = node THEN [ok |-> TRUE, nodes |-> nodes]
  ELSE LET i    == IndexOf(nodes, node)
           rest == IF i = -1 THEN nodes ELSE RemoveAt(nodes, i)
           at   == IF ref = Undefined THEN Len(rest) ELSE IndexOf(rest, ref)
       IN  [ok |-> TRUE, nodes |-> ArrInsert(rest, at, node)]

\* Node.removeChild(node).  A node that is not a child raises NotFoundError.
RemoveChild(nodes, node) ==
  LET i == IndexOf(nodes, node)
  IN  IF i = -1 THEN [ok |-> FALSE, nodes |-> nodes]
      ELSE [ok |-> TRUE, nodes |-> RemoveAt(nodes, i)]

-----------------------------------------------------------------------------
(* The layout's methods, as functions of the program state L:              *)
(*   children        this._children                                        *)
(*   parent          this.parent (the layout's container, or Null)         *)
(*   isAttached      the container widget's isAttached                     *)
(*   parentDisposed  the container widget's isDisposed                     *)
(*   nodes           the child list of the container's node                *)
(*   wparent         the parent property of every child widget             *)
(*   sent            messages sent to children by the running operation    *)
(*   hooks           methods of the layout entered by the running          *)
(*                   operation: the hooks and onChildRemoved               *)
(*   threw           the running operation raised an exception             *)
(*   other           the other layout: its children, parent, isAttached,   *)
(*                   parentDisposed, nodes, sent and hooks                 *)

\* The same program state seen from the other layout: `this` is the other
\* layout and the other layout is this one.
Swap(L) ==
  [L EXCEPT !.children = L.other.children,
            !.parent = L.other.parent,
            !.isAttached = L.other.isAttached,
            !.parentDisposed = L.other.parentDisposed,
            !.nodes = L.other.nodes,
            !.sent = L.other.sent,
            !.hooks = L.other.hooks,
            !.other = [children |-> L.children, parent |-> L.parent,
                       isAttached |-> L.isAttached,
                       parentDisposed |-> L.parentDisposed, nodes |-> L.nodes,
                       sent |-> L.sent, hooks |-> L.hooks]]

\* A node has one parent node: a node placed in this container's node is no
\* longer in the node of the other container.
Adopt(L, node) ==
  LET i == IndexOf(L.other.nodes, node)
  IN  IF i = -1 THEN L ELSE [L EXCEPT !.other.nodes = RemoveAt(@, i)]

\* sendMessage(child, msg)
\* The log keeps, with each message, whether the child's node was in the
\* container's node at the time of delivery.
SendMessage(L, child, msg) ==
  [L EXCEPT !.sent = Append(@, <<child, msg, child \in Range(L.nodes)>>)]

Enter(L, hook, index, child) == [L EXCEPT !.hooks = Append(@, <<hook, index, child>>)]

\* childCount() that leaves the last child out.
ChildCountShort(L) == Len(L.children) - 1

\* childCount()
ChildCount(L) == Len(L.children)

\* childAt(index)
ChildAt(L, index) == ElemAt(L.children, index)

\* childAt(index) for any integer index.
ChildAtInteger(L, index) == ElemAtInteger(L.children, index)

\* childIndex(child) of AbstractLayout: the first i below childCount() with
\* childAt(i) === child, or -1.
RECURSIVE ChildIndexFrom(_, _, _)
ChildIndexFrom(L, child, i) ==
  IF i >= ChildCount(L) THEN -1
  ELSE IF ChildAt(L, i) = child THEN i
  ELSE ChildIndexFrom(L, child, i + 1)

ChildIndex(L, child) == ChildIndexFrom(L, child, 0)

\* attachChild that always appends the node.
AttachChildAppend(L0, index, child) ==
  LET L   == Enter(L0, "attachChild", index, child)
      L1  == [L EXCEPT !.nodes = InsertBefore(@, child, Undefined).nodes]
  IN  IF L1.isAttached THEN SendMessage(L1, child, MsgAfterAttach) ELSE L1

\* attachChild that sends 'after-attach' before it places the node.
AttachChildSendFirst(L0, index, child) ==
  LET L   == Enter(L0, "attachChild", index, child)
      ref == ChildAt(L, index + 1)
      L1  == IF L.isAttached THEN SendMessage(L, child, MsgAfterAttach) ELSE L
      ins == InsertBefore(L1.nodes, child, ref)
  IN  IF L.parent = Null \/ ~ins.ok THEN [L EXCEPT !.threw = TRUE]
      ELSE [L1 EXCEPT !.nodes = ins.nodes]

\* attachChild(index, child)
AttachChild(L0, index, child) ==
  LET L   == Enter(L0, "attachChild", index, child)
      ref == ChildAt(L, index + 1)
      ins == InsertBefore(L.nodes, child, ref)
  IN  IF L.parent = Null \/ ~ins.ok THEN [L EXCEPT !.threw = TRUE]
      ELSE LET L1 == Adopt([L EXCEPT !.nodes = ins.nodes], child)
           IN  IF L1.isAttached THEN SendMessage(L1, child, MsgAfterAttach) ELSE L1

\* moveChild that sends no 'before-detach'.
MoveChildNoDetach(L0, fromIndex, toIndex, child) ==
  LET L   == Enter(L0, "moveChild", toIndex, child)
      ref == ChildAt(L, toIndex + 1)
      ins == InsertBefore(L.nodes, child, ref)
  IN  IF ~ins.ok THEN [L EXCEPT !.threw = TRUE]
      ELSE LET L2 == [L EXCEPT !.nodes = ins.nodes]
           IN  IF L2.isAttached THEN SendMessage(L2, child, MsgAfterAttach) ELSE L2

\* moveChild that sends 'after-attach' first and 'before-detach' last.
MoveChildSwapped(L0, fromIndex, toIndex, child) ==
  LET L   == Enter(L0, "moveChild", toIndex, child)
      ref == ChildAt(L, toIndex + 1)
      L1  == IF L.isAttached THEN SendMessage(L, child, MsgAfterAttach) ELSE L
      ins == InsertBefore(L1.nodes, child, ref)
  IN  IF L.parent = Null THEN [L EXCEPT !.threw = TRUE]
      ELSE IF ~ins.ok THEN [L1 EXCEPT !.threw = TRUE]
      ELSE LET L2 == [L1 EXCEPT !.nodes = ins.nodes]
           IN  IF L2.isAttached THEN SendMessage(L2, child, MsgBeforeDetach) ELSE L2

\* moveChild(fromIndex, toIndex, child)
MoveChild(L0, fromIndex, toIndex, child) ==
  LET L   == Enter(L0, "moveChild", toIndex, child)
      ref == ChildAt(L, toIndex + 1)
      L1  == IF L.isAttached THEN SendMessage(L, child, MsgBeforeDetach) ELSE L
      ins == InsertBefore(L1.nodes, child, ref)
  IN  IF L.parent = Null THEN [L EXCEPT !.threw = TRUE]
      ELSE IF ~ins.ok THEN [L1 EXCEPT !.threw = TRUE]
      ELSE LET L2 == Adopt([L1 EXCEPT !.nodes = ins.nodes], child)
           IN  IF L2.isAttached THEN SendMessage(L2, child, MsgAfterAttach) ELSE L2

\* detachChild that keeps the child's node in the container's node.
DetachChildKeepNode(L0, index, child) ==
  LET L == Enter(L0, "detachChild", index, child)
  IN  IF L.parent = Null THEN [L EXCEPT !.threw = TRUE]
      ELSE IF L.isAttached THEN SendMessage(L, child, MsgBeforeDetach) ELSE L

\* detachChild that sends 'before-detach' whether the container is attached
\* or not.
DetachChildAlwaysSend(L0, index, child) ==
  LET L   == Enter(L0, "detachChild", index, child)
      L1  == SendMessage(L, child, MsgBeforeDetach)
      rem == RemoveChild(L1.nodes, child)
  IN  IF L.parent = Null THEN [L EXCEPT !.threw = TRUE]
      ELSE IF ~rem.ok THEN [L1 EXCEPT !.threw = TRUE]
      ELSE [L1 EXCEPT !.nodes = rem.nodes]

\* detachChild that removes the node before it sends 'before-detach'.
DetachChildSendLate(L0, index, child) ==
  LET L   == Enter(L0, "detachChild", index, child)
      rem == RemoveChild(L.nodes, child)
      L1  == [L EXCEPT !.nodes = rem.nodes]
  IN  IF L.parent = Null \/ ~rem.ok THEN [L EXCEPT !.threw = TRUE]
      ELSE IF L1.isAttached THEN SendMessage(L1, child, MsgBeforeDetach) ELSE L1

\* detachChild(index, child).  With no parent, reading this.parent.isAttached
\* raises TypeError.
DetachChild(L0, index, child) ==
  LET L   == Enter(L0, "detachChild", index, child)
      L1  == IF L.isAttached THEN SendMessage(L, child, MsgBeforeDetach) ELSE L
      rem == RemoveChild(L1.nodes, child)
  IN  IF L.parent = Null THEN [L EXCEPT !.threw = TRUE]
      ELSE IF ~rem.ok THEN [L1 EXCEPT !.threw = TRUE]
      ELSE [L1 EXCEPT !.nodes = rem.nodes]

\* onChildRemoved without `if (i !== -1)`.
OnChildRemovedNoTest(L0, child) ==
  LET L  == Enter(L0, "onChildRemoved", -1, child)
      r  == ArrRemove(L.children, child)
  IN  DetachChild([L EXCEPT !.children = r.array], r.index, child)

\* onChildRemoved(msg), msg.child = child
OnChildRemoved(L0, child) ==
  LET L  == Enter(L0, "onChildRemoved", -1, child)
      r  == ArrRemove(L.children, child)
      L1 == [L EXCEPT !.children = r.array]
  IN  IF r.index # -1 THEN DetachChild(L1, r.index, child) ELSE L1

\* `child.parent = value` (the Widget.parent setter).  Leaving a parent that
\* is not disposed sends it 'child-removed' first; the container hands the
\* message to its layout: this layout when it is installed on that parent,
\* the other layout when that one is.
SetWidgetParent(L, child, value) ==
  IF L.wparent[child] = value THEN L
  ELSE LET old   == L.wparent[child]
           told  == old # Null /\ old = L.parent /\ ~L.parentDisposed
           otold == old # Null /\ old = L.other.parent /\ ~L.other.parentDisposed
           L1    == IF told THEN OnChildRemoved(L, child)
                    ELSE IF otold THEN Swap(OnChildRemoved(Swap(L), child))
                    ELSE L
       IN  IF L1.threw THEN L1
           ELSE [L1 EXCEPT !.wparent[child] = value]

\* The j of insertChild: Math.max(0, Math.min(index | 0, n)).
Clamp(index, n) == Max(0, Min(ToInt32(index), n))

\* insertChild without the test for membership: the child is always inserted.
InsertChildNoLookup(L0, index, child) ==
  LET L  == SetWidgetParent(L0, child, L0.parent)
      j  == Clamp(index, Len(L.children))
      L1 == [L EXCEPT !.children = ArrInsert(@, j, child)]
  IN  IF L1.parent # Null THEN AttachChild(L1, j, child) ELSE L1

\* insertChild without `if (i === j) return`.
InsertChildNoReturn(L0, index, child) ==
  LET L == SetWidgetParent(L0, child, L0.parent)
      n == Len(L.children)
      i == IndexOf(L.children, child)
      j == Clamp(index, n)
  IN  IF L.threw THEN L
      ELSE IF i # -1
        THEN LET j2 == IF j = n THEN j - 1 ELSE j
                 L1 == [L EXCEPT !.children = ArrMove(@, i, j2)]
             IN  IF L1.parent # Null THEN MoveChild(L1, i, j2, child) ELSE L1
        ELSE LET L1 == [L EXCEPT !.children = ArrInsert(@, j, child)]
             IN  IF L1.parent # Null THEN AttachChild(L1, j, child) ELSE L1

\* insertChild that detaches a present child instead of moving its node.
InsertChildDetachOnMove(L0, index, child) ==
  LET L == SetWidgetParent(L0, child, L0.parent)
      n == Len(L.children)
      i == IndexOf(L.children, child)
      j == Clamp(index, n)
  IN  IF L.threw THEN L
      ELSE IF i # -1
        THEN LET j2 == IF j = n THEN j - 1 ELSE j
             IN  IF i = j2 THEN L
                 ELSE LET L1 == [L EXCEPT !.children = ArrMove(@, i, j2)]
                      IN  IF L1.parent # Null THEN DetachChild(L1, i, child) ELSE L1
        ELSE LET L1 == [L EXCEPT !.children = ArrInsert(@, j, child)]
             IN  IF L1.parent # Null THEN AttachChild(L1, j, child) ELSE L1

\* insertChild without `if (this.parent)` before the hooks.
InsertChildNoGuard(L0, index, child) ==
  LET L == SetWidgetParent(L0, child, L0.parent)
      n == Len(L.children)
      i == IndexOf(L.children, child)
      j == Clamp(index, n)
  IN  IF L.threw THEN L
      ELSE IF i # -1
        THEN LET j2 == IF j = n THEN j - 1 ELSE j
             IN  IF i = j2 THEN L
                 ELSE MoveChild([L EXCEPT !.children = ArrMove(@, i, j2)], i, j2, child)
        ELSE AttachChild([L EXCEPT !.children = ArrInsert(@, j, child)], j, child)

\* insertChild without `if (j === n) j--`.
InsertChildNoDecrement(L0, index, child) ==
  LET L == SetWidgetParent(L0, child, L0.parent)
      n == Len(L.children)
      i == IndexOf(L.children, child)
      j == Clamp(index, n)
  IN  IF L.threw THEN L
      ELSE IF i # -1
        THEN IF i = j THEN L
             ELSE LET L1 == [L EXCEPT !.children = ArrMove(@, i, j)]
                  IN  IF L1.parent # Null THEN MoveChild(L1, i, j, child) ELSE L1
        ELSE LET L1 == [L EXCEPT !.children = ArrInsert(@, j, child)]
             IN  IF L1.parent # Null THEN AttachChild(L1, j, child) ELSE L1

\* insertChild without `child.parent = this.parent`.
InsertChildKeepParent(L, index, child) ==
  LET n == Len(L.children)
      i == IndexOf(L.children, child)
      j == Clamp(index, n)
  IN  IF i # -1
        THEN LET j2 == IF j = n THEN j - 1 ELSE j
             IN  IF i = j2 THEN L
                 ELSE LET L1 == [L EXCEPT !.children = ArrMove(@, i, j2)]
                      IN  IF L1.parent # Null THEN MoveChild(L1, i, j2, child) ELSE L1
        ELSE LET L1 == [L EXCEPT !.children = ArrInsert(@, j, child)]
             IN  IF L1.parent # Null THEN AttachChild(L1, j, child) ELSE L1

\* insertChild(index, child)
InsertChild(L0, index, child) ==
  LET L == SetWidgetParent(L0, child, L0.parent)
      n == Len(L.children)
      i == IndexOf(L.children, child)
      j == Clamp(index, n)
  IN  IF L.threw THEN L
      ELSE IF i # -1
        THEN LET j2 == IF j = n THEN j - 1 ELSE j
             IN  IF i = j2 THEN L
                 ELSE LET L1 == [L EXCEPT !.children = ArrMove(@, i, j2)]
                      IN  IF L1.parent # Null THEN MoveChild(L1, i, j2, child) ELSE L1
        ELSE LET L1 == [L EXCEPT !.children = ArrInsert(@, j, child)]
             IN  IF L1.parent # Null THEN AttachChild(L1, j, child) ELSE L1

\* addChild that puts the child in front.
AddChildFront(L, child) == InsertChild(L, Small(0), child)

\* addChild that inserts at the last position instead of the count.
AddChildBeforeLast(L, child) == InsertChild(L, Small(ChildCount(L) - 1), child)

\* addChild(child)
AddChild(L, child) == InsertChild(L, Small(ChildCount(L)), child)

\* initialize(): the loop from position i on.
RECURSIVE InitializeFrom(_, _)
InitializeFrom(L, i) ==
  IF L.threw \/ i >= ChildCount(L) THEN L
  ELSE LET child == ChildAt(L, i)
           L1    == SetWidgetParent(L, child, L.parent)
       IN  IF L1.threw THEN L1
           ELSE InitializeFrom(AttachChild(L1, i, child), i + 1)

Initialize(L) == InitializeFrom(L, 0)

\* AbstractLayout's handlers for the container's own 'after-attach' and
\* 'before-detach': the message is passed on to every child in order.
RECURSIVE SendToAll(_, _, _)
SendToAll(L, msg, i) ==
  IF i >= ChildCount(L) THEN L
  ELSE SendToAll(SendMessage(L, ChildAt(L, i), msg), msg, i + 1)

-----------------------------------------------------------------------------
VARIABLES
  children,        \* this._children
  parent,          \* this.parent: Null until the layout is installed
  isAttached,      \* the container is attached to the DOM
  parentDisposed,  \* the container has been disposed
  nodes,           \* the child list of the container's node
  wparent,         \* wparent[w]: the parent of child widget w
  sent,            \* messages sent to children by the latest operation
  hooks,           \* hook methods entered by the latest operation
  threw,           \* the latest operation raised an exception
  disposed,        \* the layout's dispose() has completed
  pc,              \* "idle", or "disposing" inside the loop of dispose()
  disposeCalls,    \* disposeCalls[w]: calls of w.dispose() made by the layout
  lastOp,          \* the latest operation, its arguments, and the sequence
                   \* (before), its length n and the child's position i
                   \* at the time of the call; again: it is an insertChild
                   \* with the arguments of the insertChild right before it
  addLog,          \* the children added so far, while only addChild of new
                   \* children has touched the sequence
  liveRun,         \* the layout is installed and its container has been
                   \* attached ever since the layout was installed
  lastMsg,         \* lastMsg[w]: the last message the layout sent to w
                   \* during the live run ("none" outside of it)
  result,          \* the latest query (childAt, childIndex), its argument
                   \* and the value it returned
  other            \* the other layout and its container

vars == <<children, parent, isAttached, parentDisposed, nodes, wparent, sent,
          hooks, threw, disposed, pc, disposeCalls, lastOp, addLog, liveRun,
          lastMsg, result, other>>

\* The program state handed to the methods, with the logs emptied.
Cur ==
  [children |-> children, parent |-> parent, isAttached |-> isAttached,
   parentDisposed |-> parentDisposed, nodes |-> nodes, wparent |-> wparent,
   sent |-> <<>>, hooks |-> <<>>, threw |-> FALSE,
   other |-> [other EXCEPT !.sent = <<>>, !.hooks = <<>>]]

Store(L) ==
  /\ children' = L.children
  /\ parent' = L.parent
  /\ isAttached' = L.isAttached
  /\ parentDisposed' = L.parentDisposed
  /\ nodes' = L.nodes
  /\ wparent' = L.wparent
  /\ sent' = L.sent
  /\ hooks' = L.hooks
  /\ threw' = L.threw
  /\ other' = L.other

Op(name, index, child) ==
  [op |-> name, index |-> index, child |-> child,
   n |-> Len(children), i |-> IndexOf(children, child), before |-> children,
   again |-> /\ name = "insertChild" /\ lastOp.op = name
             /\ lastOp.index = index /\ lastOp.child = child]

NoLog == [pure |-> FALSE, seq |-> <<>>]

NoMsg == [w \in Widgets |-> "none"]

\* The last message of every child once msgs (from position k on) have been
\* delivered after last.
RECURSIVE Heard(_, _, _)
Heard(last, msgs, k) ==
  IF k > Len(msgs) THEN last
  ELSE Heard([last EXCEPT ![msgs[k][1]] = msgs[k][2]], msgs, k + 1)

\* The live run goes on: the messages of the operation are added.
KeepRun ==
  /\ liveRun' = liveRun
  /\ lastMsg' = IF liveRun THEN Heard(lastMsg, sent', 1) ELSE lastMsg

\* The live run ends.
EndRun == liveRun' = FALSE /\ lastMsg' = NoMsg

\* A new PanelLayout beside the first, not installed.
NoOther ==
  [children |-> <<>>, parent |-> Null, isAttached |-> FALSE,
   parentDisposed |-> FALSE, nodes |-> <<>>, sent |-> <<>>, hooks |-> <<>>]

NoResult == [op |-> "none", index |-> Small(0), child |-> Undefined, value |-> Undefined]

Idle == pc = "idle" /\ ~threw /\ ~disposed

Init ==
  /\ children = <<>>
  /\ parent = Null
  /\ isAttached = FALSE
  /\ parentDisposed = FALSE
  /\ nodes = <<>>
  /\ wparent = [w \in Widgets |-> Null]
  /\ sent = <<>>
  /\ hooks = <<>>
  /\ threw = FALSE
  /\ disposed = FALSE
  /\ pc = "idle"
  /\ disposeCalls = [w \in Widgets |-> 0]
  /\ lastOp = [op |-> "new", index |-> Small(0), child |-> Undefined, n |-> 0, i |-> -1,
              before |-> <<>>, again |-> FALSE]
  /\ addLog = [pure |-> TRUE, seq |-> <<>>]
  /\ liveRun = FALSE
  /\ lastMsg = NoMsg
  /\ result = NoResult
  /\ other = NoOther

\* layout.insertChild(index, child)
DoInsertChild(index, child) ==
  /\ Idle
  /\ Store(InsertChild(Cur, index, child))
  /\ lastOp' = Op("insertChild", index, child)
  /\ addLog' = NoLog
  /\ KeepRun
  /\ UNCHANGED <<result, disposed, pc, disposeCalls>>

\* layout.addChild(child)
DoAddChild(child) ==
  /\ Idle
  /\ Store(AddChild(Cur, child))
  /\ lastOp' = Op("addChild", Small(Len(children)), child)
  /\ addLog' = IF addLog.pure /\ child \notin Range(children)
                 THEN [addLog EXCEPT !.seq = Append(@, child)]
                 ELSE NoLog
  /\ KeepRun
  /\ UNCHANGED <<result, disposed, pc, disposeCalls>>

\* container.layout = layout: the layout gets its parent and initialize() runs.
Install ==
  /\ Idle
  /\ parent = Null
  /\ Store(Initialize([Cur EXCEPT !.parent = Container]))
  /\ lastOp' = Op("install", Small(0), Undefined)
  /\ liveRun' = isAttached
  /\ lastMsg' = IF isAttached THEN Heard(NoMsg, sent', 1) ELSE NoMsg
  /\ UNCHANGED <<result, disposed, pc, disposeCalls, addLog>>

\* child.parent = value, by code outside the layout.
WidgetSetParent(child, value) ==
  /\ Idle
  /\ wparent[child] # value
  /\ Store(SetWidgetParent(Cur, child, value))
  /\ lastOp' = Op("setParent", Small(0), child)
  /\ addLog' = IF child \in Range(children) /\ children' # children THEN NoLog ELSE addLog
  /\ KeepRun
  /\ UNCHANGED <<result, disposed, pc, disposeCalls>>

\* A 'child-removed' message handed to a layout that has no container
\* (layout.processParentMessage(msg), msg.child = child).
DoChildRemoved(child) ==
  /\ Idle
  /\ parent = Null
  /\ Store(OnChildRemoved(Cur, child))
  /\ lastOp' = Op("childRemoved", Small(0), child)
  /\ addLog' = IF child \in Range(children) THEN NoLog ELSE addLog
  /\ UNCHANGED <<result, disposed, pc, disposeCalls, liveRun, lastMsg>>

\* container.attach(host)
ParentAttach ==
  /\ Idle
  /\ ~isAttached
  /\ LET L == [Cur EXCEPT !.isAttached = TRUE]
     IN  Store(IF parent = Container THEN SendToAll(L, MsgAfterAttach, 0) ELSE L)
  /\ lastOp' = Op("attach", Small(0), Undefined)
  /\ UNCHANGED <<result, disposed, pc, disposeCalls, addLog, liveRun, lastMsg>>

\* container.detach()
ParentDetach ==
  /\ Idle
  /\ isAttached
  /\ LET L == IF parent = Container THEN SendToAll(Cur, MsgBeforeDetach, 0) ELSE Cur
     IN  Store([L EXCEPT !.isAttached = FALSE])
  /\ lastOp' = Op("detach", Small(0), Undefined)
  /\ EndRun
  /\ UNCHANGED <<result, disposed, pc, disposeCalls, addLog>>

\* Array.prototype.pop(): the last element and the array without it.
ArrPop(array) ==
  [value |-> array[Len(array)], array |-> SubSeq(array, 1, Len(array) - 1)]

\* child.dispose() (Widget.dispose): nothing for a widget already disposed;
\* otherwise a child that has a parent gives it up.
WidgetDispose(L, child, isDisposed) ==
  IF isDisposed THEN L
  ELSE IF L.wparent[child] # Null THEN SetWidgetParent(L, child, Null)
  ELSE L

\* An iteration that disposes the last child before taking it off the array.
DisposeIterationLatePop(L, calls) ==
  LET child == L.children[Len(L.children)]
      L1    == WidgetDispose(L, child, calls[child] > 0)
  IN  [L     |-> IF Len(L1.children) = 0 THEN L1
                 ELSE [L1 EXCEPT !.children = ArrPop(@).array],
       calls |-> [calls EXCEPT ![child] = @ + 1]]

\* One iteration of the loop of dispose(): this._children.pop().dispose()
DisposeIteration(L, calls) ==
  LET p == ArrPop(L.children)
  IN  [L     |-> WidgetDispose([L EXCEPT !.children = p.array], p.value,
                               calls[p.value] > 0),
       calls |-> [calls EXCEPT ![p.value] = @ + 1]]

\* layout.dispose() is entered, either called directly or by the container's
\* own dispose(), which first marks the container disposed and takes it out
\* of the DOM.
DisposeBegin(viaParent) ==
  /\ Idle
  /\ viaParent => parent = Container
  /\ LET L == IF viaParent /\ isAttached
                THEN [SendToAll(Cur, MsgBeforeDetach, 0) EXCEPT !.isAttached = FALSE]
                ELSE Cur
     IN  Store([L EXCEPT !.parentDisposed = viaParent])
  /\ pc' = "disposing"
  /\ lastOp' = Op("dispose", Small(0), Undefined)
  /\ addLog' = NoLog
  /\ EndRun
  /\ UNCHANGED <<result, disposed, disposeCalls>>

\* while (this._children.length > 0) this._children.pop().dispose();
DisposeLoop ==
  /\ pc = "disposing" /\ ~threw
  /\ Len(children) > 0
  /\ LET r == DisposeIteration([Cur EXCEPT !.sent = sent, !.hooks = hooks],
                               disposeCalls)
     IN  Store(r.L) /\ disposeCalls' = r.calls
  /\ UNCHANGED <<result, disposed, pc, lastOp, addLog, liveRun, lastMsg>>

\* The loop ends and super.dispose() drops the layout's parent.
DisposeEnd ==
  /\ pc = "disposing" /\ ~threw
  /\ Len(children) = 0
  /\ disposed' = TRUE
  /\ parent' = Null
  /\ pc' = "idle"
  /\ UNCHANGED <<children, isAttached, parentDisposed, nodes, wparent, sent,
                 hooks, threw, disposeCalls, lastOp, addLog, liveRun, lastMsg,
                 result, other>>

Next ==
  \/ \E index \in Indices, child \in Widgets : DoInsertChild(index, child)
  \/ \E child \in Widgets : DoAddChild(child)
  \/ Install
  \/ \E child \in Widgets, value \in {Null, Container} : WidgetSetParent(child, value)
  \/ \E child \in Widgets : DoChildRemoved(child)
  \/ ParentAttach
  \/ ParentDetach
  \/ \E viaParent \in BOOLEAN : DisposeBegin(viaParent)
  \/ DisposeLoop
  \/ DisposeEnd

Spec == Init /\ [][Next]_vars

\* otherLayout.addChild(child)
DoOtherAddChild(child) ==
  /\ Idle
  /\ Store(Swap(AddChild(Swap(Cur), child)))
  /\ lastOp' = Op("otherAddChild", Small(Len(other.children)), child)
  /\ addLog' = IF children' # children THEN NoLog ELSE addLog
  /\ KeepRun
  /\ UNCHANGED <<result, disposed, pc, disposeCalls>>

\* Two new layouts on attached containers: the other one installed, this one
\* installed or not.
TwoInit ==
  /\ children = <<>>
  /\ parent \in {Null, Container}
  /\ isAttached = TRUE
  /\ parentDisposed = FALSE
  /\ nodes = <<>>
  /\ wparent = [w \in Widgets |-> Null]
  /\ sent = <<>>
  /\ hooks = <<>>
  /\ threw = FALSE
  /\ disposed = FALSE
  /\ pc = "idle"
  /\ disposeCalls = [w \in Widgets |-> 0]
  /\ lastOp = [op |-> "new", index |-> Small(0), child |-> Undefined, n |-> 0, i |-> -1,
               before |-> <<>>, again |-> FALSE]
  /\ addLog = NoLog
  /\ liveRun = FALSE
  /\ lastMsg = NoMsg
  /\ result = NoResult
  /\ other = [NoOther EXCEPT !.parent = Other, !.isAttached = TRUE]

\* The indices at the front of the sequence.
FrontIndices == { Small(k) : k \in 0..IndexSlack }

\* The operations that hand children to one layout or the other.
TwoNext ==
  \/ \E index \in FrontIndices, child \in Widgets : DoInsertChild(index, child)
  \/ \E child \in Widgets : DoAddChild(child)
  \/ \E child \in Widgets : DoOtherAddChild(child)

TwoSpec == TwoInit /\ [][TwoNext]_vars

\* The sequences the layout can hold: every child at most once.
Arrangements ==
  { s \in UNION { [1..k -> Widgets] : k \in 0..NumWidgets } :
      \A a, b \in DOMAIN s : s[a] = s[b] => a = b }

\* A layout that holds any arrangement of children, installed or not.
QueryInit ==
  /\ children \in Arrangements
  /\ parent \in {Null, Container}
  /\ isAttached = FALSE
  /\ parentDisposed = FALSE
  /\ nodes = IF parent = Container THEN children ELSE <<>>
  /\ wparent = [w \in Widgets |-> IF w \in Range(children) THEN parent ELSE Null]
  /\ sent = <<>>
  /\ hooks = <<>>
  /\ threw = FALSE
  /\ disposed = FALSE
  /\ pc = "idle"
  /\ disposeCalls = [w \in Widgets |-> 0]
  /\ lastOp = [op |-> "new", index |-> Small(0), child |-> Undefined,
               n |-> Len(children), i |-> -1, before |-> children,
               again |-> FALSE]
  /\ addLog = NoLog
  /\ liveRun = FALSE
  /\ lastMsg = NoMsg
  /\ result = NoResult
  /\ other = NoOther

\* layout.childAt(index)
DoChildAt(index) ==
  /\ result' = [op |-> "childAt", index |-> index, child |-> Undefined,
                value |-> ChildAtInteger(Cur, index)]
  /\ UNCHANGED <<children, parent, isAttached, parentDisposed, nodes, wparent,
                 sent, hooks, threw, disposed, pc, disposeCalls, lastOp,
                 addLog, liveRun, lastMsg, other>>

\* layout.childIndex(child)
DoChildIndex(child) ==
  /\ result' = [op |-> "childIndex", index |-> Small(0), child |-> child,
                value |-> ChildIndex(Cur, child)]
  /\ UNCHANGED <<children, parent, isAttached, parentDisposed, nodes, wparent,
                 sent, hooks, threw, disposed, pc, disposeCalls, lastOp,
                 addLog, liveRun, lastMsg, other>>

QueryNext ==
  \/ \E index \in Indices : DoChildAt(index)
  \/ \E child \in Widgets : DoChildIndex(child)

\* The queries, asked of a layout in any arrangement.
QuerySpec == QueryInit /\ [][QueryNext]_vars

\* dispose() is synchronous code: once entered, its loop runs to the end.
FairSpec == Spec /\ WF_vars(DisposeLoop) /\ WF_vars(DisposeEnd)

-----------------------------------------------------------------------------
(* Properties.                                                             *)

Inserted == lastOp.op \in {"insertChild", "addChild"}

\* The messages of the latest operation as <<child, type>> pairs.
Delivered == [k \in 1..Len(sent) |-> <<sent[k][1], sent[k][2]>>]

\* The hook methods (attachChild, moveChild, detachChild) entered by the
\* latest operation.
HooksEntered == SelectSeq(hooks, LAMBDA h : h[1] # "onChildRemoved")

\* C1: in every reachable state each child widget occurs at most once in the
\* child sequence.
C1_ChildrenUnique ==
  \A a, b \in 1..Len(children) : children[a] = children[b] => a = b

\* An insert of a child that was already in a sequence of three has moved it.
C1_Witness ==
  /\ Inserted /\ lastOp.i # -1 /\ lastOp.n = 3
  /\ children # lastOp.before

\* C2: for an installed layout, after an append, an insert or a removal
\* notification the container's node holds exactly the nodes of the children
\* of the sequence, in the order of the sequence.
C2_SurfaceInSync ==
  (parent = Container /\ lastOp.op \in {"addChild", "insertChild", "setParent"})
    => nodes = children

\* A child of an installed layout of three has been moved to another place.
C2_Witness ==
  /\ parent = Container /\ Inserted /\ lastOp.i # -1 /\ lastOp.n = 3
  /\ children # lastOp.before
  /\ nodes = children

\* C3: installing a layout that already holds two or more children does not
\* fail, and leaves the nodes in the container in the order of the sequence.
C3_InitializeKeepsOrder ==
  (lastOp.op = "install" /\ lastOp.n >= 2) => (~threw /\ nodes = children)

\* C4: with a live container, an insert that takes a present child from
\* position i to another position sends that child exactly one
\* 'before-detach' and then exactly one 'after-attach', and sends nothing to
\* any other child.
C4_MoveMessages ==
  (/\ Inserted /\ parent = Container /\ isAttached
   /\ lastOp.i # -1 /\ IndexOf(children, lastOp.child) # lastOp.i)
    => Delivered = << <<lastOp.child, MsgBeforeDetach>>,
                      <<lastOp.child, MsgAfterAttach>> >>

\* A child of a live layout of three has gone from position 2 to position 0.
C4_Witness ==
  /\ Inserted /\ parent = Container /\ isAttached
  /\ lastOp.n = 3 /\ lastOp.i = 2 /\ IndexOf(children, lastOp.child) = 0
  /\ Len(sent) = 2

\* C5: dispose() on a layout of N children terminates, leaves the sequence
\* empty and calls dispose on each of the N children exactly once; a removal
\* notification that a child's disposal sends back to the layout finds the
\* child gone from the sequence and enters no hook.
C5_DisposeAll ==
  /\ [](disposed =>
         /\ Len(children) = 0
         /\ \A w \in Widgets :
              disposeCalls[w] = IF w \in Range(lastOp.before) THEN 1 ELSE 0
         /\ HooksEntered = <<>>)
  /\ (pc = "disposing") ~> disposed

\* dispose() has ended on a layout of three whose every child sent a removal
\* notification back to the layout during the loop.
C5_Witness ==
  /\ disposed /\ lastOp.n = 3
  /\ [k \in 1..Len(hooks) |-> hooks[k][1]]
       = <<"onChildRemoved", "onChildRemoved", "onChildRemoved">>

IndexAtLeast(index, n) == index[1] > 0 \/ (index[1] = 0 /\ index[2] >= n)

\* C7: an insert of a present child with index >= count moves the child to
\* the last position: afterwards it is at count - 1 and the count is the same.
C7_PastEndMovesToLast ==
  (Inserted /\ lastOp.i # -1 /\ IndexAtLeast(lastOp.index, lastOp.n))
    => (/\ Len(children) = lastOp.n
        /\ IndexOf(children, lastOp.child) = lastOp.n - 1
        /\ C1_ChildrenUnique)

\* The sequence without the child.
Without(seq, child) == SelectSeq(seq, LAMBDA w : w # child)

\* C8: an insert of a present child, for every index, keeps the count, leaves
\* the child at min(max(0, min(index, count)), count - 1) and keeps the order
\* of the other children.
C8_MovePosition ==
  (Inserted /\ lastOp.i # -1)
    => (/\ Len(children) = lastOp.n
        /\ IndexOf(children, lastOp.child)
             = Min(MathClamp(lastOp.index, lastOp.n), lastOp.n - 1)
        /\ Without(children, lastOp.child) = Without(lastOp.before, lastOp.child))

\* C9: an insert of a child that is not in the sequence raises the count by
\* one, puts the child at max(0, min(index, old count)), keeps the order of
\* the others and makes the layout's container the child's parent.
C9_InsertNew ==
  (Inserted /\ lastOp.i = -1)
    => (/\ Len(children) = lastOp.n + 1
        /\ IndexOf(children, lastOp.child) = MathClamp(lastOp.index, lastOp.n)
        /\ Without(children, lastOp.child) = lastOp.before
        /\ wparent[lastOp.child] = parent)

\* C10: from an empty layout, after addChild of N distinct children the count
\* is N and the children stand in the order they were added.
C10_AppendOrder ==
  addLog.pure =>
    /\ Len(children) = Len(addLog.seq)
    /\ \A k \in 0..(Len(addLog.seq) - 1) : ElemAt(children, k) = addLog.seq[k + 1]

\* Children 2, 3 and 1 have been added in that order and nothing else has
\* touched the sequence.
C10_Witness ==
  /\ addLog.pure /\ addLog.seq = <<2, 3, 1>>
  /\ lastOp.op = "addChild"

\* The latest operation handed the layout a 'child-removed' message for
\* lastOp.child.
Removal ==
  /\ lastOp.op \in {"setParent", "childRemoved"}
  /\ hooks # <<>>
  /\ hooks[1] = <<"onChildRemoved", -1, lastOp.child>>

\* C11: a removal notification for a child that is not in the sequence leaves
\* the sequence and the container's node as they are, enters no hook and
\* sends no message.
C11_RemoveAbsentNoOp ==
  [][(Removal' /\ lastOp'.i = -1)
     => (/\ children' = children
         /\ nodes' = nodes
         /\ HooksEntered' = <<>>
         /\ sent' = <<>>
         /\ ~threw')]_vars

\* An installed live layout of two has been told of the removal of a widget
\* that is not one of its children.
C11_Witness ==
  /\ Removal /\ lastOp.i = -1
  /\ parent = Container /\ isAttached
  /\ Len(children) = 2

\* C12: on an installed layout, a removal notification for the child at
\* position i takes exactly that child out of the sequence (the count drops
\* by one, the others keep their order) and takes its node out of the
\* container's node.
C12_RemovePresent ==
  (Removal /\ lastOp.i # -1 /\ parent = Container)
    => (/\ Len(children) = lastOp.n - 1
        /\ children = Without(lastOp.before, lastOp.child)
        /\ lastOp.child \notin Range(nodes)
        /\ nodes = children)

\* The middle child of an installed layout of three has been removed.
C12_Witness ==
  /\ Removal /\ parent = Container
  /\ lastOp.n = 3 /\ lastOp.i = 1
  /\ Len(nodes) = 2

\* C13: removing a present child from a layout that has no container succeeds
\* without error: the child leaves the sequence, the count drops by one and
\* the others keep their order.
C13_RemoveWithoutParent ==
  (Removal /\ lastOp.i # -1 /\ parent = Null /\ ~disposed)
    => (/\ ~threw
        /\ Len(children) = lastOp.n - 1
        /\ children = Without(lastOp.before, lastOp.child))

\* C14: while the container is not attached, an insert of a new child, a
\* move, a removal notification or initialize sends no message to any child;
\* in particular detachChild then sends no 'before-detach'.
C14_NoMessagesWhenNotLive ==
  (/\ lastOp.op \in {"insertChild", "addChild", "setParent", "childRemoved",
                     "install"}
   /\ ~isAttached)
    => sent = <<>>

\* A child of an installed layout whose container is not attached has been
\* removed, through detachChild.
C14_Witness ==
  /\ Removal /\ lastOp.i # -1
  /\ parent = Container /\ ~isAttached
  /\ HooksEntered = << <<"detachChild", lastOp.i, lastOp.child>> >>

\* C15: with a live container, a removal notification for a present child
\* sends that child exactly one 'before-detach' and nothing to any other
\* child, and sends it while the child's node is still in the container's
\* node.
C15_DetachMessage ==
  (Removal /\ lastOp.i # -1 /\ parent = Container /\ isAttached)
    => sent = << <<lastOp.child, MsgBeforeDetach, TRUE>> >>

\* The first child of a live installed layout of three has been removed.
C15_Witness ==
  /\ Removal /\ parent = Container /\ isAttached
  /\ lastOp.n = 3 /\ lastOp.i = 0
  /\ Len(sent) = 1

\* C16: with a live container, an insert of a new child into an installed
\* layout sends that child exactly one 'after-attach' and nothing to any other
\* child, and sends it once the child's node stands in the container's node
\* right before the node of the child at the next index (or at the end).
C16_AttachMessage ==
  (Inserted /\ lastOp.i = -1 /\ parent = Container /\ isAttached)
    => (/\ sent = << <<lastOp.child, MsgAfterAttach, TRUE>> >>
        /\ LET k == IndexOf(nodes, lastOp.child)
               j == IndexOf(children, lastOp.child)
           IN  k # -1 /\ j # -1 /\ ElemAt(nodes, k + 1) = ElemAt(children, j + 1))

\* A new child has been inserted between the two children of a live installed
\* layout.
C16_Witness ==
  /\ Inserted /\ lastOp.i = -1 /\ parent = Container /\ isAttached
  /\ lastOp.n = 2 /\ IndexOf(children, lastOp.child) = 1
  /\ nodes = children

\* C17: when a layout is installed, initialize makes the container the
\* parent of every child of the sequence and enters attachChild exactly once
\* per child, in index order; on a live container each child gets exactly one
\* 'after-attach'; the sequence is as it was.
C17_InitializeAttachesAll ==
  (lastOp.op = "install")
    => (/\ children = lastOp.before
        /\ \A c \in Range(children) : wparent[c] = Container
        /\ hooks = [k \in 1..Len(children) |-> <<"attachChild", k - 1, children[k]>>]
        /\ isAttached
             => Delivered = [k \in 1..Len(children) |-> <<children[k], MsgAfterAttach>>])

\* C18: for every integer index, negative or at or beyond 2^31, an insert of a
\* new child raises no error and puts it at max(0, min(index, count)); an
\* index larger than the count puts the child at the end.
C18_AnyIndexClamped ==
  (Inserted /\ lastOp.i = -1)
    => (/\ ~threw
        /\ IndexOf(children, lastOp.child) = MathClamp(lastOp.index, lastOp.n)
        /\ IndexAtLeast(lastOp.index, lastOp.n)
             => children[Len(children)] = lastOp.child)

\* C19: detachChild is entered only while a removal notification for a child
\* of the sequence is handled, and a child's node that is in the container's
\* node stays there across every step after which the child is still in the
\* sequence.
C19_DetachOnlyOnRemoval ==
  /\ [](\A k \in 1..Len(hooks) :
          hooks[k][1] = "detachChild"
            => (/\ k > 1
                /\ hooks[k - 1] = <<"onChildRemoved", -1, hooks[k][3]>>
                /\ hooks[k][3] \in Range(lastOp.before)
                /\ hooks[k][3] \notin Range(children)))
  /\ [][\A c \in Widgets :
          (c \in Range(nodes) /\ c \in Range(children')) => c \in Range(nodes')]_vars

\* A child of an installed layout of three has been moved through moveChild
\* and its node is in the container's node.
C19_Witness ==
  /\ parent = Container /\ Inserted /\ lastOp.n = 3
  /\ HooksEntered # <<>> /\ HooksEntered[1][1] = "moveChild"
  /\ lastOp.child \in Range(nodes) /\ Len(nodes) = 3

\* The messages msgs (from position k on), delivered after last, keep every
\* child's messages alternating: an 'after-attach' never follows an
\* 'after-attach', a 'before-detach' only follows an 'after-attach'.
RECURSIVE Alternating(_, _, _)
Alternating(last, msgs, k) ==
  IF k > Len(msgs) THEN TRUE
  ELSE LET c == msgs[k][1]
           m == msgs[k][2]
       IN  /\ m = MsgAfterAttach => last[c] # MsgAfterAttach
           /\ m = MsgBeforeDetach => last[c] = MsgAfterAttach
           /\ Alternating([last EXCEPT ![c] = m], msgs, k + 1)

\* C20: for an installed layout whose container stays live throughout, the
\* messages the layout sends to any one child over inserts, moves and
\* removal notifications alternate 'after-attach', 'before-detach',
\* 'after-attach', ..., starting with 'after-attach'.
C20_MessagesAlternate ==
  [][liveRun' => Alternating(lastMsg, sent', 1)]_vars

\* In a live run child 1 has been attached and removed, and another child has
\* just been moved.
C20_Witness ==
  /\ liveRun /\ Inserted /\ lastOp.i # -1
  /\ Len(sent) = 2
  /\ lastMsg[1] = MsgBeforeDetach
  /\ lastMsg[lastOp.child] = MsgAfterAttach

\* The layout and the widgets are as they were before the step.
SameLayout ==
  UNCHANGED <<children, parent, isAttached, parentDisposed, nodes, wparent,
              threw, disposed, pc, disposeCalls>>

\* C21: childAt(index) returns the child at that position when
\* 0 <= index < count; for every other index (negative, equal to the count or
\* larger) it returns undefined, raises nothing and changes no state.
C21_ChildAtOrUndefined ==
  [][result'.op = "childAt"
     => (/\ LET index == result'.index
            IN  result'.value
                  = IF index[1] = 0 /\ index[2] < Len(children)
                      THEN children[index[2] + 1]
                      ELSE Undefined
         /\ ~threw'
         /\ SameLayout)]_vars

\* childAt has been asked for the index equal to the count of a layout of
\* three and has returned undefined.
C21_Witness ==
  /\ result.op = "childAt"
  /\ Len(children) = 3
  /\ result.index = Small(Len(children))
  /\ result.value = Undefined

\* C22: childIndex(child) returns -1 exactly when the child is not in the
\* sequence; otherwise it returns the one i with 0 <= i < count and
\* childAt(i) = child, so that childAt(childIndex(c)) = c for every child c of
\* the sequence.
C22_ChildIndexRoundTrip ==
  result.op = "childIndex"
    => LET c == result.child
           v == result.value
       IN  /\ v = -1 <=> c \notin Range(children)
           /\ v # -1 =>
                /\ 0 <= v /\ v < Len(children)
                /\ ChildAtInteger(Cur, Small(v)) = c
                /\ \A k \in 0..(Len(children) - 1) :
                     ChildAtInteger(Cur, Small(k)) = c => k = v

\* childIndex has found the last child of a layout of three.
C22_Witness ==
  /\ result.op = "childIndex"
  /\ Len(children) = 3
  /\ result.value = Len(children) - 1
  /\ children[Len(children)] = result.child

\* C23: addChild(child) does what insertChild(childCount(), child) does, in
\* every state and for a new child as for a present one: the same sequence,
\* the same order of nodes in the container and the same messages.
C23_AddIsInsertAtCount ==
  [][lastOp'.op = "addChild"
     => LET R == InsertChild(Cur, Small(Len(children)), lastOp'.child)
        IN  /\ children' = R.children
            /\ nodes' = R.nodes
            /\ sent' = R.sent
            /\ hooks' = R.hooks
            /\ wparent' = R.wparent
            /\ threw' = R.threw]_vars

\* addChild has moved a present child of a live installed layout to the end.
C23_Witness ==
  /\ lastOp.op = "addChild"
  /\ parent = Container /\ isAttached
  /\ lastOp.i # -1 /\ lastOp.i < lastOp.n - 1
  /\ children[Len(children)] = lastOp.child
  /\ Delivered = << <<lastOp.child, MsgBeforeDetach>>,
                    <<lastOp.child, MsgAfterAttach>> >>

\* C24: on a layout that is not installed on a container, insertChild and
\* addChild change only the sequence and the parent of the child: no hook is
\* entered, the container's node is not touched and no message is sent.
C24_UninstalledOnlySequence ==
  [][(lastOp'.op \in {"insertChild", "addChild"} /\ parent = Null)
     => (/\ hooks' = <<>>
         /\ sent' = <<>>
         /\ ~threw'
         /\ nodes' = nodes
         /\ UNCHANGED <<parent, isAttached, parentDisposed>>
         /\ \A w \in Widgets \ {lastOp'.child} : wparent'[w] = wparent[w])]_vars

\* A present child of a layout that is not installed has been moved to
\* another position.
C24_Witness ==
  /\ Inserted /\ parent = Null /\ ~disposed
  /\ lastOp.i # -1 /\ IndexOf(children, lastOp.child) # lastOp.i
  /\ hooks = <<>> /\ nodes = <<>>

\* C27: insertChild is idempotent: for every state, index and child, a
\* second insertChild(index, child) right after the first leaves the sequence
\* and the container's node as the first left them, enters no hook and sends
\* no message.
C27_InsertIdempotent ==
  [][lastOp'.again
     => (/\ children' = children
         /\ nodes' = nodes
         /\ hooks' = <<>>
         /\ sent' = <<>>
         /\ ~threw')]_vars

\* A live installed layout of three has been asked a second time to insert a
\* child past the end.
C27_Witness ==
  /\ lastOp.again
  /\ parent = Container /\ isAttached
  /\ lastOp.n = 3 /\ IndexAtLeast(lastOp.index, lastOp.n + 1)
  /\ children = lastOp.before /\ nodes = children

\* C25: in every reachable state of an installed layout every child of its
\* sequence has the layout's container as its parent; so a child whose parent
\* has been cleared or set to another container is out of the sequence once
\* the removal notification has been handled.
C25_ChildrenHaveContainer ==
  parent = Container => \A c \in Range(children) : wparent[c] = Container

\* C26: inserting into this layout a child that is in the sequence of the
\* other, installed layout takes it out of the other layout (through the
\* parent assignment at the start of insertChild and the 'child-removed' it
\* sends), so that afterwards the child is in this layout's sequence and
\* container node only; no child is ever in the sequences of two installed
\* layouts at once.
C26_TakenFromOtherLayout ==
  /\ []((parent = Container /\ other.parent = Other)
          => Range(children) \cap Range(other.children) = {})
  /\ [][(/\ lastOp'.op \in {"insertChild", "addChild"}
         /\ other.parent = Other
         /\ lastOp'.child \in Range(other.children))
        => LET c == lastOp'.child
           IN  /\ ~threw'
               /\ other'.hooks = << <<"onChildRemoved", -1, c>>,
                                    <<"detachChild", IndexOf(other.children, c), c>> >>
               /\ other'.children = Without(other.children, c)
               /\ other'.nodes = other'.children
               /\ c \in Range(children')
               /\ wparent'[c] = parent
               /\ parent = Container => (c \in Range(nodes') /\ nodes' = children')]_vars

\* A child of the other layout, which holds more children, has been inserted
\* into this installed layout and is now in this container's node.
C26_Witness ==
  /\ lastOp.op = "insertChild" /\ parent = Container
  /\ lastOp.i = -1 /\ lastOp.n >= 1
  /\ Len(other.hooks) = 2 /\ other.hooks[2][1] = "detachChild"
  /\ other.hooks[2][3] = lastOp.child
  /\ Len(other.children) >= 1
  /\ lastOp.child \in Range(nodes) /\ lastOp.child \notin Range(other.nodes)

=============================================================================
